---- MODULE Spec2Model ----
(***************************************************************************)
(* Spotify top-artists ETL: the API client (token cache, 401/429 handling, *)
(* pagination), the Bronze normaliser and the run() orchestrator.          *)
(***************************************************************************)
EXTENDS Integers, Sequences, FiniteSets, TLC

(***************************************************************************)
(* Bounds of the model                                                     *)
(***************************************************************************)
MaxLen == 3        \* longest raw item list handed to the normalisers
MaxTargets == 2    \* most playlist targets in one configuration
MaxFaults == 2     \* most non-200 answers the server gives in one behaviour
MaxTicks == 1      \* most spontaneous clock advances in one behaviour
MaxFetches == 1    \* most fetch_playlist calls of one concurrent worker
MaxRows == 3       \* most records of a Bronze frame handed to the aggregators
MaxLoads == 3      \* most load_dataframes calls against one database

(***************************************************************************)
(* Python values                                                           *)
(***************************************************************************)
NONE == "None"     \* Python None / an absent key, for string-valued fields
NoPop == -1        \* an absent popularity

\* bool(v) of an optional string: None and "" are falsy
Truthy(v) == v # NONE /\ v # ""

(***************************************************************************)
(* Raw payload entries.  A playlist entry is None or a mapping whose       *)
(* "track" is None, {} or a track mapping; popularity is kept in halves    *)
(* (pop2 = 2 * popularity) so that fractional values can be rounded.       *)
(***************************************************************************)
Artist(id, name) == [id |-> id, name |-> name]
Track(id, name, artists, pop2) ==
    [kind |-> "dict", id |-> id, name |-> name, artists |-> artists, pop2 |-> pop2]
TrackNone == [kind |-> "none", id |-> NONE, name |-> NONE, artists |-> <<>>, pop2 |-> NoPop]
TrackEmpty == [kind |-> "empty", id |-> NONE, name |-> NONE, artists |-> <<>>, pop2 |-> NoPop]
Entry(track) == [null |-> FALSE, track |-> track]
EntryNull == [null |-> TRUE, track |-> TrackNone]

ItemUniverse ==
    { EntryNull,
      Entry(TrackNone),
      Entry(TrackEmpty),
      Entry(Track(NONE, "x", <<Artist("a1", "A")>>, 100)),
      Entry(Track("", "y", <<Artist("a2", "B")>>, 60)),
      Entry(Track("t1", "one", <<Artist("a1", "A")>>, 100)),
      Entry(Track("t2", NONE, <<Artist("a1", "A"), Artist("a2", NONE)>>, NoPop)),
      Entry(Track("t3", "three", <<>>, 99)) }

\* all sequences over S of length at most n
SeqsUpTo(S, n) == UNION { [1..k -> S] : k \in 0..n }

(***************************************************************************)
(* transform.py                                                            *)
(***************************************************************************)
\* numpy round (half to even) of pop2/2, NoPop (pandas NA) kept
RoundScore(pop2) ==
    IF pop2 = NoPop THEN NoPop
    ELSE IF pop2 % 2 = 0 THEN pop2 \div 2
    ELSE IF ((pop2 - 1) \div 2) % 2 = 0 THEN (pop2 - 1) \div 2
    ELSE (pop2 + 1) \div 2

\* [str(a.get("id")) for a in artists if a.get("id")]
artist_ids(artists) ==
    LET kept == SelectSeq(artists, LAMBDA a : Truthy(a.id))
    IN  [i \in 1..Len(kept) |-> kept[i].id]

\* [str(a.get("name")) for a in artists if a.get("name") is not None]
artist_names(artists) ==
    LET kept == SelectSeq(artists, LAMBDA a : a.name # NONE)
    IN  [i \in 1..Len(kept) |-> kept[i].name]

\* the mapping appended to rows for a kept track at position rank
BronzeRow(track, rank, market, playlist_id, playlist_name, snapshot_date) ==
    [ snapshot_date |-> snapshot_date,
      market |-> market,
      playlist_id |-> playlist_id,
      playlist_name |-> playlist_name,
      rank |-> rank,
      track_id |-> track.id,
      track_name |-> track.name,
      artist_ids |-> artist_ids(track.artists),
      artist_names |-> artist_names(track.artists),
      score |-> RoundScore(track.pop2) ]

\* item.get("track") or {} of dict(raw_item or {})
TrackOf(raw_item) ==
    IF raw_item.null \/ raw_item.track.kind = "none" THEN TrackEmpty ELSE raw_item.track

\* the two `continue` tests of the loop body: not track, not track_id
DropsTrackOnlyIfMissing(track) == track.kind # "dict"
DropsTrack(track) == track.kind # "dict" \/ ~Truthy(track.id)

RECURSIVE BronzeRowsFrom(_, _, _, _, _, _)
BronzeRowsFrom(tracks, rank, market, playlist_id, playlist_name, snapshot_date) ==
    IF rank > Len(tracks) THEN <<>>
    ELSE LET rest == BronzeRowsFrom(tracks, rank + 1, market, playlist_id,
                                    playlist_name, snapshot_date)
         IN  IF DropsTrack(tracks[rank]) THEN rest
             ELSE <<BronzeRow(tracks[rank], rank, market, playlist_id,
                              playlist_name, snapshot_date)>> \o rest

\* a variant that numbers the kept rows 1, 2, 3, ...
playlist_to_bronze_dense(items, market, playlist_id, playlist_name, snapshot_date) ==
    LET rows == BronzeRowsFrom([i \in 1..Len(items) |-> TrackOf(items[i])], 1,
                               market, playlist_id, playlist_name, snapshot_date)
    IN  [i \in 1..Len(rows) |-> [rows[i] EXCEPT !.rank = i]]

playlist_to_bronze(items, market, playlist_id, playlist_name, snapshot_date) ==
    BronzeRowsFrom([i \in 1..Len(items) |-> TrackOf(items[i])], 1,
                   market, playlist_id, playlist_name, snapshot_date)

top_tracks_to_bronze(tracks, market, playlist_id, playlist_name, snapshot_date) ==
    BronzeRowsFrom(tracks, 1, market, playlist_id, playlist_name, snapshot_date)

\* Python's order on the strings that occur as group and sort keys
StrOrder == <<"", "A", "B", "GB", "GLOBAL", "None", "US", "a1", "a2">>
StrIndex(s) == CHOOSE i \in 1..Len(StrOrder) : StrOrder[i] = s
StrLess(a, b) == StrIndex(a) < StrIndex(b)

Range(seq) == { seq[i] : i \in 1..Len(seq) }
MinOf(S) == CHOOSE x \in S : \A y \in S : x <= y

RECURSIVE SumOf(_)
SumOf(seq) == IF seq = <<>> THEN 0 ELSE Head(seq) + SumOf(Tail(seq))

\* a variant that emits a null-artist tuple for a row without artist pairs
ExplodeRowKeepEmpty(row) ==
    LET n == IF Len(row.artist_ids) <= Len(row.artist_names)
             THEN Len(row.artist_ids) ELSE Len(row.artist_names)
    IN  IF n = 0
        THEN << [ snapshot_date |-> row.snapshot_date, market |-> row.market,
                  artist_id |-> NONE, artist_name |-> NONE,
                  track_id |-> row.track_id, score |-> row.score, rank |-> row.rank ] >>
        ELSE [ i \in 1..n |->
                 [ snapshot_date |-> row.snapshot_date, market |-> row.market,
                   artist_id |-> row.artist_ids[i], artist_name |-> row.artist_names[i],
                   track_id |-> row.track_id, score |-> row.score, rank |-> row.rank ] ]

\* the tuples one Bronze row adds to exploded_rows: one per pair of
\* zip(artist_ids, artist_names), none when there is no pair
ExplodeRow(row) ==
    LET n == IF Len(row.artist_ids) <= Len(row.artist_names)
             THEN Len(row.artist_ids) ELSE Len(row.artist_names)
    IN  [ i \in 1..n |->
            [ snapshot_date |-> row.snapshot_date, market |-> row.market,
              artist_id |-> row.artist_ids[i], artist_name |-> row.artist_names[i],
              track_id |-> row.track_id, score |-> row.score, rank |-> row.rank ] ]

RECURSIVE Explode(_)
Explode(bronze_df) ==
    IF bronze_df = <<>> THEN <<>>
    ELSE ExplodeRow(Head(bronze_df)) \o Explode(Tail(bronze_df))

\* a variant that counts the rows of the group
CountTrackRows(group) == Len(group)

\* tracks=("track_id", "nunique")
CountTracks(group) == Cardinality({ group[i].track_id : i \in 1..Len(group) })

\* total_score=("score", "sum"): NA is skipped, so it adds nothing
SumScores(group) ==
    SumOf([ i \in 1..Len(group) |-> IF group[i].score = NoPop THEN 0 ELSE group[i].score ])

\* one row of the grouped frame
SilverRow(key, group) ==
    [ snapshot_date |-> key.snapshot_date, market |-> key.market,
      artist_id |-> key.artist_id, artist_name |-> key.artist_name,
      tracks |-> CountTracks(group),
      total_score |-> SumScores(group),
      best_rank |-> MinOf({ group[i].rank : i \in 1..Len(group) }) ]

\* groupby(...) sorts the groups by their key, and sort_values is stable, so
\* rows equal on every sort column stay in group-key order
KeyBefore(a, b) ==
    \/ StrLess(a.artist_id, b.artist_id)
    \/ a.artist_id = b.artist_id /\ StrLess(a.artist_name, b.artist_name)

\* a variant that sorts total_score ascending as well
SilverBeforeAscending(a, b) ==
    \/ a.snapshot_date < b.snapshot_date
    \/ /\ a.snapshot_date = b.snapshot_date
       /\ \/ StrLess(a.market, b.market)
          \/ /\ a.market = b.market
             /\ \/ a.best_rank < b.best_rank
                \/ /\ a.best_rank = b.best_rank
                   /\ \/ a.total_score < b.total_score
                      \/ a.total_score = b.total_score /\ KeyBefore(a, b)

\* sort_values(["snapshot_date", "market", "best_rank", "total_score"],
\*             ascending=[True, True, True, False])
SilverBefore(a, b) ==
    \/ a.snapshot_date < b.snapshot_date
    \/ /\ a.snapshot_date = b.snapshot_date
       /\ \/ StrLess(a.market, b.market)
          \/ /\ a.market = b.market
             /\ \/ a.best_rank < b.best_rank
                \/ /\ a.best_rank = b.best_rank
                   /\ \/ a.total_score > b.total_score
                      \/ a.total_score = b.total_score /\ KeyBefore(a, b)

RECURSIVE SilverSorted(_)
SilverSorted(rows) ==
    IF rows = {} THEN <<>>
    ELSE LET first == CHOOSE r \in rows : \A o \in rows \ {r} : SilverBefore(r, o)
         IN  <<first>> \o SilverSorted(rows \ {first})

bronze_to_silver(bronze_df) ==
    IF bronze_df = <<>> THEN <<>>
    ELSE LET exploded == Explode(bronze_df)
             keys == { [ snapshot_date |-> e.snapshot_date, market |-> e.market,
                         artist_id |-> e.artist_id, artist_name |-> e.artist_name ] :
                       e \in Range(exploded) }
             group(k) == SelectSeq(exploded,
                                   LAMBDA e : /\ e.snapshot_date = k.snapshot_date
                                              /\ e.market = k.market
                                              /\ e.artist_id = k.artist_id
                                              /\ e.artist_name = k.artist_name)
         IN  IF exploded = <<>> THEN <<>>
             ELSE SilverSorted({ SilverRow(k, group(k)) : k \in keys })

\* a variant that takes the first market's best_rank
GoldBestRankFirst(group) == group[1].best_rank

\* best_rank=("best_rank", "min")
GoldBestRank(group) == MinOf({ group[i].best_rank : i \in 1..Len(group) })

\* one row of the grouped frame
GoldRow(key, group) ==
    [ snapshot_date |-> key.snapshot_date,
      artist_id |-> key.artist_id, artist_name |-> key.artist_name,
      markets |-> Cardinality({ group[i].market : i \in 1..Len(group) }),
      total_score |-> SumOf([ i \in 1..Len(group) |-> group[i].total_score ]),
      best_rank |-> GoldBestRank(group) ]

\* sort_values(["snapshot_date", "best_rank", "total_score"],
\*             ascending=[True, True, False])
GoldBefore(a, b) ==
    \/ a.snapshot_date < b.snapshot_date
    \/ /\ a.snapshot_date = b.snapshot_date
       /\ \/ a.best_rank < b.best_rank
          \/ /\ a.best_rank = b.best_rank
             /\ \/ a.total_score > b.total_score
                \/ a.total_score = b.total_score /\ KeyBefore(a, b)

RECURSIVE GoldSorted(_)
GoldSorted(rows) ==
    IF rows = {} THEN <<>>
    ELSE LET first == CHOOSE r \in rows : \A o \in rows \ {r} : GoldBefore(r, o)
         IN  <<first>> \o GoldSorted(rows \ {first})

silver_to_gold(silver_df) ==
    IF silver_df = <<>> THEN <<>>
    ELSE LET keys == { [ snapshot_date |-> r.snapshot_date, artist_id |-> r.artist_id,
                         artist_name |-> r.artist_name ] : r \in Range(silver_df) }
             group(k) == SelectSeq(silver_df,
                                   LAMBDA r : /\ r.snapshot_date = k.snapshot_date
                                              /\ r.artist_id = k.artist_id
                                              /\ r.artist_name = k.artist_name)
         IN  GoldSorted({ GoldRow(k, group(k)) : k \in keys })


(***************************************************************************)
(* config.py                                                               *)
(***************************************************************************)
\* str.upper / str.lower on the market labels that occur
Upper(s) ==
    CASE s = "us" -> "US" [] s = "gb" -> "GB" [] s = "global" -> "GLOBAL" [] OTHER -> s
Lower(s) ==
    CASE s = "US" -> "us" [] s = "GB" -> "gb" [] s = "GLOBAL" -> "global" [] OTHER -> s

PlaylistTarget(market, playlist_id, api_market_override) ==
    [market |-> market, playlist_id |-> playlist_id,
     api_market_override |-> api_market_override]

dataset_market(target) == Upper(target.market)

api_market(target) ==
    IF Truthy(target.api_market_override) THEN Upper(target.api_market_override)
    ELSE IF Lower(target.market) = "global" THEN NONE
    ELSE Upper(target.market)

\* the fields of the frozen dataclass Settings and its two properties
SettingsAttributes ==
    {"spotify_client_id", "spotify_client_secret", "target", "database_url",
     "files_output_dir", "playlists", "outputs_dir", "use_database"}

(***************************************************************************)
(* The catalog API, as far as the client sees it                            *)
(***************************************************************************)
SafetyMargin == 30          \* _ensure_token: time.time() < expiry - 30
DefaultExpiresIn == 3600    \* payload.get("expires_in", 3600)
DefaultRetryAfter == 1      \* response.headers.get("Retry-After", "1")
Absent == 0                 \* a header or payload key the server did not send

ExpiresInChoices == {Absent, 40}
RetryAfterChoices == {Absent, 2}
ServerStatuses == {200, 401, 429, 500}
TickSteps == {10}

Callers == {1, 2}

\* what the server holds: per playlist its name and its pages of entries
Catalog ==
    [ p1 |-> [ name |-> "Top US",
               pages |-> << << Entry(Track("t1", "one", <<Artist("a1", "A")>>, 100)),
                               Entry(TrackNone) >>,
                            << Entry(Track(NONE, "x", <<Artist("a1", "A")>>, 100)),
                               Entry(Track("t2", NONE,
                                           <<Artist("a1", "A"), Artist("a2", NONE)>>,
                                           NoPop)) >> >> ],
      p2 |-> [ name |-> NONE,
               pages |-> << << EntryNull,
                               Entry(Track("", "y", <<Artist("a2", "B")>>, 60)) >> >> ],
      p3 |-> [ name |-> "Top GB",
               pages |-> << << Entry(Track("t3", "three", <<>>, 99)) >> >> ] ]

Url(pid, page) == [pid |-> pid, page |-> page]
NoUrl == [pid |-> NONE, page |-> 0]

\* the JSON body of a 200 answer to url: the page's entries and the next pointer
PagePayload(url) ==
    LET pl == Catalog[url.pid]
    IN  [ name |-> pl.name,
          items |-> pl.pages[url.page],
          next |-> IF url.page < Len(pl.pages) THEN Url(url.pid, url.page + 1)
                   ELSE NoUrl ]

NoErr == [status |-> 0, src |-> "none"]
NoEnsure == [stale |-> FALSE, posts |-> 0, oldTok |-> 0, oldExp |-> 0,
             newTok |-> 0, newExp |-> 0]
NoLast == [valid |-> FALSE, url |-> NoUrl, payload |-> [name |-> NONE, items |-> <<>>, next |-> NoUrl],
           sent |-> <<>>, n401 |-> 0, n429 |-> 0]

VARIABLES
    token, token_expiry,      \* SpotifyClient._token (0 = None), ._token_expiry
    now,                      \* time.time()
    issued, faults, ticks,    \* tokens granted, non-200 answers given, clock advances
    call,                     \* per caller: position and locals in fetch_playlist/_request
    targets, runpc, ti, ai, last_error, bronze_frames, errors, outcome, bronze_df,
    silver_df, gold_df,       \* run()'s aggregates of bronze_df
    tried,                    \* per target reached: the fetch attempts made, market and result
    served, rejectedAt,       \* targets fully served by the API; target at which the token endpoint refused
    fetches,                  \* fetch_playlist calls begun by each concurrent worker
    raw, bronze_fn, bronze_out, \* a normaliser's input, which one ran, its output
    agg_pc, silver_out, gold_out, \* the aggregators applied to bronze_out, and how far
    db, load_log              \* the three tables; arguments and outcome of each load_dataframes call

clientVars == <<token, token_expiry, now, issued, faults, ticks, call>>
runVars == <<targets, runpc, ti, ai, last_error, bronze_frames, errors, outcome, bronze_df,
             silver_df, gold_df, tried>>
ghostVars == <<served, rejectedAt>>
aggVars == <<agg_pc, silver_out, gold_out>>
loadVars == <<db, load_log>>
pureVars == <<raw, bronze_fn, bronze_out, aggVars, loadVars>>
vars == <<clientVars, runVars, ghostVars, fetches, pureVars>>

IdleCall ==
    [ pc |-> "idle", playlist_id |-> NONE, first |-> TRUE, name |-> NONE, items |-> <<>>,
      url |-> NoUrl, params |-> NONE, auth |-> 0, asked |-> <<>>,
      sent |-> <<>>, n401 |-> 0, n429 |-> 0, slept |-> 0, owed |-> 0,
      status |-> 0, ens |-> NoEnsure, last |-> NoLast, err |-> NoErr ]

(***************************************************************************)
(* spotify.py: SpotifyClient                                               *)
(***************************************************************************)
\* the early return of _ensure_token, without the 30 s margin
TokenValidNoMargin(tok, expiry, t) == tok # 0 /\ t < expiry

\* the early return of _ensure_token
TokenValid(tok, expiry, t) == tok # 0 /\ t < expiry - SafetyMargin

\* float(response.headers.get("Retry-After", "1")), absent header read as no wait
RetryAfterNoDefault(header) == header

\* float(response.headers.get("Retry-After", "1"))
RetryAfter(header) == IF header = Absent THEN DefaultRetryAfter ELSE header

\* the branches of the loop body, every error status re-authenticated
HandlingReauthAnyError(status) ==
    IF status = 429 THEN "backoff"
    ELSE IF status >= 400 THEN "reauth"
    ELSE "return"

\* the branches of the loop body of _request on response.status_code
Handling(status) ==
    IF status = 401 THEN "reauth"
    ELSE IF status = 429 THEN "backoff"
    ELSE IF status >= 400 /\ status < 600 THEN "raise"
    ELSE "return"

\* a variant that keeps only the newest page's items
ExtendItemsNewest(first, items, batch) == batch

\* items of the first page; items.extend(batch) for every later page
ExtendItems(first, items, batch) == IF first THEN batch ELSE items \o batch

\* entry of _request(method, url, params): locals of a fresh call
BeginRequest(c, url, params) ==
    [ call[c] EXCEPT !.pc = "ensure", !.url = url, !.params = params, !.auth = 0,
                     !.sent = <<>>, !.n401 = 0, !.n429 = 0, !.slept = 0, !.owed = 0,
                     !.status = 0, !.ens = NoEnsure, !.last = NoLast, !.err = NoErr ]

\* entry of fetch_playlist(playlist_id, market=market)
BeginFetch(c, playlist_id, market) ==
    [ BeginRequest(c, Url(playlist_id, 1), IF Truthy(market) THEN market ELSE NONE)
        EXCEPT !.playlist_id = playlist_id, !.first = TRUE, !.name = NONE, !.items = <<>>,
               !.asked = <<Url(playlist_id, 1)>> ]

\* _ensure_token up to its return or its POST to the token endpoint
ensure_token(c) ==
    /\ call[c].pc = "ensure"
    /\ LET e == [ stale |-> (token = 0 \/ now >= token_expiry - SafetyMargin),
                  posts |-> 0, oldTok |-> token, oldExp |-> token_expiry,
                  newTok |-> 0, newExp |-> 0 ]
       IN  IF TokenValid(token, token_expiry, now)
           THEN call' = [call EXCEPT ![c].pc = "hdr", ![c].ens = e, ![c].last = NoLast]
           ELSE call' = [call EXCEPT ![c].pc = "token_wait", ![c].last = NoLast,
                                     ![c].ens = [e EXCEPT !.posts = 1]]
    /\ UNCHANGED <<token, token_expiry, now, issued, faults, ticks>>
    /\ UNCHANGED <<runVars, ghostVars, fetches, pureVars>>

\* the token endpoint answers 200: token and expiry are stored
token_granted(c) ==
    /\ call[c].pc = "token_wait"
    /\ \E g \in ExpiresInChoices :
         LET expires_in == IF g = Absent THEN DefaultExpiresIn ELSE g
         IN  /\ token' = issued + 1
             /\ token_expiry' = now + expires_in
             /\ call' = [call EXCEPT ![c].pc = "hdr",
                                     ![c].ens.newTok = issued + 1,
                                     ![c].ens.newExp = now + expires_in]
    /\ issued' = issued + 1
    /\ UNCHANGED <<now, faults, ticks>>
    /\ UNCHANGED <<runVars, ghostVars, fetches, pureVars>>

\* the token endpoint refuses the credentials: raise_for_status raises HTTPError
token_rejected(c) ==
    /\ call[c].pc = "token_wait"
    /\ faults < MaxFaults
    /\ faults' = faults + 1
    /\ call' = [call EXCEPT ![c].pc = "raised",
                            ![c].err = [status |-> 401, src |-> "token"]]
    /\ rejectedAt' = IF runpc = "fetching" /\ c = 1 /\ rejectedAt = 0 THEN ti ELSE rejectedAt
    /\ UNCHANGED <<token, token_expiry, now, issued, ticks, served>>
    /\ UNCHANGED <<runVars, fetches, pureVars>>

\* headers = {"Authorization": Bearer token}; self._session.request(...)
request_send(c) ==
    /\ call[c].pc = "hdr"
    /\ call' = [call EXCEPT ![c].pc = "wait", ![c].auth = token, ![c].ens = NoEnsure,
                            ![c].sent = Append(@, [url |-> call[c].url,
                                                   params |-> call[c].params,
                                                   auth |-> token])]
    /\ UNCHANGED <<token, token_expiry, now, issued, faults, ticks>>
    /\ UNCHANGED <<runVars, ghostVars, fetches, pureVars>>

\* status 401: _invalidate_token, then _ensure_token again
response_reauth(c) ==
    /\ call[c].pc = "wait"
    /\ faults < MaxFaults
    /\ \E status \in ServerStatuses :
         /\ Handling(status) = "reauth"
         /\ call' = [call EXCEPT ![c].pc = "ensure", ![c].n401 = @ + 1,
                                 ![c].status = status]
    /\ token' = 0
    /\ token_expiry' = 0
    /\ faults' = faults + 1
    /\ UNCHANGED <<now, issued, ticks>>
    /\ UNCHANGED <<runVars, ghostVars, fetches, pureVars>>

\* status 429: sleep Retry-After seconds, then the same request again
response_backoff(c) ==
    /\ call[c].pc = "wait"
    /\ faults < MaxFaults
    /\ \E status \in ServerStatuses, header \in RetryAfterChoices :
         /\ Handling(status) = "backoff"
         /\ now' = now + RetryAfter(header)
         /\ call' = [call EXCEPT ![c].n429 = @ + 1,
                                 ![c].slept = @ + RetryAfter(header),
                                 ![c].owed = @ + (IF header = Absent THEN 1 ELSE header),
                                 ![c].status = status,
                                 ![c].sent = Append(@, [url |-> call[c].url,
                                                        params |-> call[c].params,
                                                        auth |-> call[c].auth])]
    /\ faults' = faults + 1
    /\ UNCHANGED <<token, token_expiry, issued, ticks>>
    /\ UNCHANGED <<runVars, ghostVars, fetches, pureVars>>

\* any other error status: raise_for_status raises, fetch_playlist lets it pass
response_raise(c) ==
    /\ call[c].pc = "wait"
    /\ faults < MaxFaults
    /\ \E status \in ServerStatuses :
         /\ Handling(status) = "raise"
         /\ call' = [call EXCEPT ![c].pc = "raised",
                                 ![c].err = [status |-> status, src |-> "api"],
                                 ![c].status = status]
    /\ faults' = faults + 1
    /\ UNCHANGED <<token, token_expiry, now, issued, ticks>>
    /\ UNCHANGED <<runVars, ghostVars, fetches, pureVars>>

\* status 200: _request returns response.json(); fetch_playlist takes the page
\* and either asks for the next one or returns the playlist
response_return(c) ==
    /\ call[c].pc = "wait"
    /\ \E status \in ServerStatuses : Handling(status) = "return"
    /\ LET received == call[c].sent[Len(call[c].sent)]
           payload == PagePayload(received.url)
           items == ExtendItems(call[c].first, call[c].items, payload.items)
           done == [ call[c] EXCEPT
                       !.status = 200,
                       !.first = FALSE,
                       !.name = IF call[c].first THEN payload.name ELSE @,
                       !.items = items,
                       !.last = [ valid |-> TRUE, url |-> call[c].url, payload |-> payload,
                                  sent |-> call[c].sent, n401 |-> call[c].n401,
                                  n429 |-> call[c].n429 ] ]
       IN  /\ IF payload.next # NoUrl
              THEN call' = [call EXCEPT ![c] =
                              [ done EXCEPT !.pc = "ensure", !.url = payload.next,
                                            !.asked = Append(@, payload.next),
                                            !.params = NONE, !.auth = 0, !.sent = <<>>,
                                            !.n401 = 0, !.n429 = 0, !.slept = 0,
                                            !.owed = 0, !.status = 0, !.ens = NoEnsure ]]
              ELSE call' = [call EXCEPT ![c] = [done EXCEPT !.pc = "returned"]]
           /\ served' = IF payload.next = NoUrl /\ runpc = "fetching" /\ c = 1
                        THEN served \cup {ti} ELSE served
    /\ UNCHANGED <<token, token_expiry, now, issued, faults, ticks, rejectedAt>>
    /\ UNCHANGED <<runVars, fetches, pureVars>>

\* time passes; the clock is read only in _ensure_token, so it is advanced
\* only while some caller is there
Tick ==
    /\ ticks < MaxTicks
    /\ \E c \in Callers : call[c].pc \in {"ensure", "token_wait"}
    /\ \E d \in TickSteps : now' = now + d
    /\ ticks' = ticks + 1
    /\ UNCHANGED <<token, token_expiry, issued, faults, call>>
    /\ UNCHANGED <<runVars, ghostVars, fetches, pureVars>>


(***************************************************************************)
(* main.py: run()                                                          *)
(***************************************************************************)
SnapshotDate == 20261103    \* snapshot_ts.date()

TargetUniverse ==
    { PlaylistTarget("us", "p1", NONE),
      PlaylistTarget("global", "p2", NONE),
      PlaylistTarget("us", "p3", "gb") }

\* a variant without the fallback to no market filter
candidate_markets_single(target) == <<api_market(target)>>

\* candidate_markets of one target: its api_market, if any, then None
candidate_markets(target) ==
    IF Truthy(api_market(target)) THEN <<api_market(target), NONE>> ELSE <<NONE>>

\* pd.concat(bronze_frames, ignore_index=True)
RECURSIVE Concat(_)
Concat(frames) == IF frames = <<>> THEN <<>> ELSE Head(frames) \o Concat(Tail(frames))

\* a variant that keeps only the newest frame
KeepFrameLast(frames, frame) == IF frame = <<>> THEN frames ELSE <<frame>>

\* if bronze_frame.empty: continue; else bronze_frames.append(bronze_frame)
KeepFrame(frames, frame) == IF frame = <<>> THEN frames ELSE Append(frames, frame)

\* the message appended to errors when every attempt of a target failed
FailureMessage(target, error) ==
    [playlist_id |-> target.playlist_id, market |-> target.market, response |-> error]

\* one entry of the attempt log: the market passed to fetch_playlist and how
\* the call ended
Attempt(market, result) == [market |-> market, result |-> result]

\* the attempt log with the result of the fetch_playlist call that just ended
Ended(log) ==
    [log EXCEPT ![ti] = [@ EXCEPT ![Len(@)].result =
                            IF call[1].pc = "returned" THEN "returned" ELSE "HTTPError"]]

\* the rest of run() once the target at ti is dealt with: the next target's first
\* fetch, or the end of the loop and everything after it
AfterTarget(frames, errs) ==
    /\ bronze_frames' = frames
    /\ errors' = errs
    /\ IF ti < Len(targets)
       THEN /\ ti' = ti + 1
            /\ ai' = 1
            /\ call' = [call EXCEPT ![1] =
                          BeginFetch(1, targets[ti + 1].playlist_id,
                                     candidate_markets(targets[ti + 1])[1])]
            /\ tried' = Append(Ended(tried),
                               <<Attempt(candidate_markets(targets[ti + 1])[1], "pending")>>)
            /\ UNCHANGED <<runpc, outcome, bronze_df, silver_df, gold_df>>
       ELSE /\ runpc' = "done"
            /\ call' = [call EXCEPT ![1] = IdleCall]
            /\ tried' = Ended(tried)
            /\ UNCHANGED <<ti, ai>>
            /\ IF frames = <<>>
               THEN /\ outcome' = IF "artists" \in SettingsAttributes
                                  THEN "RuntimeError" ELSE "AttributeError"
                    /\ UNCHANGED <<bronze_df, silver_df, gold_df>>
               ELSE /\ outcome' = "Succeeded"
                    /\ bronze_df' = Concat(frames)
                    /\ silver_df' = bronze_to_silver(Concat(frames))
                    /\ gold_df' = silver_to_gold(bronze_to_silver(Concat(frames)))

\* run() from its entry to the first fetch_playlist call
run_start ==
    /\ runpc = "init"
    /\ runpc' = "fetching"
    /\ ti' = 1
    /\ ai' = 1
    /\ bronze_frames' = <<>>
    /\ errors' = <<>>
    /\ call' = [call EXCEPT ![1] =
                  BeginFetch(1, targets[1].playlist_id, candidate_markets(targets[1])[1])]
    /\ tried' = << <<Attempt(candidate_markets(targets[1])[1], "pending")>> >>
    /\ UNCHANGED <<token, token_expiry, now, issued, faults, ticks>>
    /\ UNCHANGED <<targets, last_error, outcome, bronze_df, silver_df, gold_df>>
    /\ UNCHANGED <<ghostVars, fetches, pureVars>>

\* fetch_playlist returned: break, normalise, keep the frame unless it is empty
run_fetched ==
    /\ runpc = "fetching"
    /\ call[1].pc = "returned"
    /\ LET target == targets[ti]
           playlist_name == IF Truthy(call[1].name) THEN call[1].name
                            ELSE target.playlist_id
           bronze_frame == playlist_to_bronze(call[1].items, dataset_market(target),
                                              target.playlist_id, playlist_name,
                                              SnapshotDate)
       IN  AfterTarget(KeepFrame(bronze_frames, bronze_frame), errors)
    /\ UNCHANGED <<token, token_expiry, now, issued, faults, ticks>>
    /\ UNCHANGED <<targets, last_error>>
    /\ UNCHANGED <<ghostVars, fetches, pureVars>>

\* fetch_playlist raised HTTPError: the next candidate market, or the target is skipped
run_fetch_failed ==
    /\ runpc = "fetching"
    /\ call[1].pc = "raised"
    /\ last_error' = call[1].err
    /\ IF ai < Len(candidate_markets(targets[ti]))
       THEN /\ ai' = ai + 1
            /\ call' = [call EXCEPT ![1] =
                          BeginFetch(1, targets[ti].playlist_id,
                                     candidate_markets(targets[ti])[ai + 1])]
            /\ tried' = [Ended(tried) EXCEPT ![ti] =
                            Append(@, Attempt(candidate_markets(targets[ti])[ai + 1],
                                              "pending"))]
            /\ UNCHANGED <<runpc, ti, bronze_frames, errors, outcome, bronze_df,
                           silver_df, gold_df>>
       ELSE AfterTarget(bronze_frames,
                        Append(errors, FailureMessage(targets[ti], call[1].err)))
    /\ UNCHANGED <<token, token_expiry, now, issued, faults, ticks>>
    /\ UNCHANGED targets
    /\ UNCHANGED <<ghostVars, fetches, pureVars>>

(***************************************************************************)
(* Concurrent use of one SpotifyClient by two workers                      *)
(***************************************************************************)
worker_fetch(c) ==
    /\ runpc = "off"
    /\ call[c].pc \in {"idle", "returned", "raised"}
    /\ fetches[c] < MaxFetches
    /\ fetches' = [fetches EXCEPT ![c] = @ + 1]
    /\ \E pid \in {"p1", "p3"} :
         call' = [call EXCEPT ![c] = BeginFetch(c, pid, NONE)]
    /\ UNCHANGED <<token, token_expiry, now, issued, faults, ticks>>
    /\ UNCHANGED <<runVars, ghostVars, pureVars>>

(***************************************************************************)
(* The normalisers on their own                                            *)
(***************************************************************************)
normalise_playlist ==
    /\ bronze_fn = "ready"
    /\ bronze_fn' = "playlist"
    /\ bronze_out' = playlist_to_bronze(raw, "US", "p1", "Top US", SnapshotDate)
    /\ UNCHANGED <<raw, clientVars, runVars, ghostVars, fetches, aggVars, loadVars>>

\* top_tracks_to_bronze takes the track mappings themselves
normalise_top_tracks ==
    /\ bronze_fn = "ready"
    /\ \A i \in 1..Len(raw) : ~raw[i].null /\ raw[i].track.kind # "none"
    /\ bronze_fn' = "top"
    /\ bronze_out' = top_tracks_to_bronze([i \in 1..Len(raw) |-> raw[i].track],
                                          "US", "artist:a1:top", "Top Tracks - A",
                                          SnapshotDate)
    /\ UNCHANGED <<raw, clientVars, runVars, ghostVars, fetches, aggVars, loadVars>>

(***************************************************************************)
(* The aggregators on their own                                            *)
(***************************************************************************)
\* a record of a Bronze frame, by the columns the aggregators read
GivenRow(snapshot_date, market, rank, track_id, ids, names, score) ==
    [ snapshot_date |-> snapshot_date, market |-> market, playlist_id |-> "p1",
      playlist_name |-> "Top", rank |-> rank, track_id |-> track_id,
      track_name |-> "n", artist_ids |-> ids, artist_names |-> names, score |-> score ]

\* Bronze records to build frames from: one artist on two tracks, in two
\* markets and on two dates, a record of two artists without a score, one
\* artist id under two names, a record without artists
BronzeRowUniverse ==
    { GivenRow(SnapshotDate, "US", 1, "t1", <<"a1">>, <<"A">>, 50),
      GivenRow(SnapshotDate, "US", 2, "t2", <<"a1">>, <<"A">>, 49),
      GivenRow(SnapshotDate, "GB", 3, "t1", <<"a1">>, <<"A">>, 80),
      GivenRow(SnapshotDate, "US", 2, "t1", <<"a1", "a2">>, <<"A", "B">>, NoPop),
      GivenRow(SnapshotDate, "US", 3, "t3", <<"a2">>, <<"B">>, 60),
      GivenRow(SnapshotDate, "US", 1, "t4", <<"a1">>, <<"B">>, 30),
      GivenRow(SnapshotDate - 1, "US", 1, "t1", <<"a2">>, <<"B">>, 10),
      GivenRow(SnapshotDate, "US", 4, "t5", <<>>, <<>>, 20) }

to_silver ==
    /\ bronze_fn \in {"playlist", "top", "given"}
    /\ agg_pc = "bronze"
    /\ agg_pc' = "silver"
    /\ silver_out' = bronze_to_silver(bronze_out)
    /\ UNCHANGED <<raw, bronze_fn, bronze_out, gold_out>>
    /\ UNCHANGED <<clientVars, runVars, ghostVars, fetches, loadVars>>

to_gold ==
    /\ agg_pc = "silver"
    /\ agg_pc' = "gold"
    /\ gold_out' = silver_to_gold(silver_out)
    /\ UNCHANGED <<raw, bronze_fn, bronze_out, silver_out>>
    /\ UNCHANGED <<clientVars, runVars, ghostVars, fetches, loadVars>>

(***************************************************************************)
(* db.py: load_dataframes                                                  *)
(***************************************************************************)
Tables == {"bronze", "silver", "gold"}
NoSnapshot == 0    \* snapshot: Optional[date] = None

\* the PRIMARY KEY of each table's DDL
PrimaryKey(table, row) ==
    IF table = "bronze" THEN <<row.snapshot_date, row.market, row.rank>>
    ELSE IF table = "silver" THEN <<row.snapshot_date, row.market, row.artist_id>>
    ELSE <<row.snapshot_date, row.artist_id>>

\* a variant that deletes nothing
DeleteNothing(tables, snapshot) == tables

\* DELETE FROM each table WHERE snapshot_date = :dt
DeleteSnapshot(tables, snapshot) ==
    [ t \in Tables |-> { r \in tables[t] : r.snapshot_date # snapshot } ]

\* to_sql(..., if_exists="append") in its own transaction: the rows are added
\* unless a primary key is taken twice, then nothing is added and it raises
Conflicts(tables, t, df) ==
    \/ \E i, j \in 1..Len(df) : i # j /\ PrimaryKey(t, df[i]) = PrimaryKey(t, df[j])
    \/ \E i \in 1..Len(df) : \E r \in tables[t] : PrimaryKey(t, df[i]) = PrimaryKey(t, r)

Appended(tables, t, df) == [ tables EXCEPT ![t] = @ \cup Range(df) ]

\* the snapshot date load_dataframes works with: the argument, or the date
\* of the first row of the first frame that is not empty
SnapshotOf(args) ==
    IF args.snapshot # NoSnapshot THEN args.snapshot
    ELSE IF args.bronze_df # <<>> THEN args.bronze_df[1].snapshot_date
    ELSE IF args.silver_df # <<>> THEN args.silver_df[1].snapshot_date
    ELSE IF args.gold_df # <<>> THEN args.gold_df[1].snapshot_date
    ELSE NoSnapshot

\* the tables and the outcome after one call of load_dataframes
Loaded(tables, args) ==
    IF SnapshotOf(args) = NoSnapshot THEN [tables |-> tables, status |-> "RuntimeError"]
    ELSE LET t0 == DeleteSnapshot(tables, SnapshotOf(args))
             bad1 == args.bronze_df # <<>> /\ Conflicts(t0, "bronze", args.bronze_df)
             t1 == IF args.bronze_df = <<>> THEN t0
                   ELSE Appended(t0, "bronze", args.bronze_df)
             bad2 == args.silver_df # <<>> /\ Conflicts(t1, "silver", args.silver_df)
             t2 == IF args.silver_df = <<>> THEN t1
                   ELSE Appended(t1, "silver", args.silver_df)
             bad3 == args.gold_df # <<>> /\ Conflicts(t2, "gold", args.gold_df)
             t3 == IF args.gold_df = <<>> THEN t2
                   ELSE Appended(t2, "gold", args.gold_df)
         IN  IF bad1 THEN [tables |-> t0, status |-> "IntegrityError"]
             ELSE IF bad2 THEN [tables |-> t1, status |-> "IntegrityError"]
             ELSE IF bad3 THEN [tables |-> t2, status |-> "IntegrityError"]
             ELSE [tables |-> t3, status |-> "returned"]

EmptyTables == [ t \in Tables |-> {} ]

\* the frames run() passes for one Bronze frame, and the snapshot argument
LoadArgs(bronze, snapshot) ==
    [ bronze_df |-> bronze, silver_df |-> bronze_to_silver(bronze),
      gold_df |-> silver_to_gold(bronze_to_silver(bronze)), snapshot |-> snapshot ]

\* Bronze frames of one date each: two contents for today, one without
\* artists, one of the day before, one with a rank taken twice, one with an
\* artist id under two names
LoadFrames ==
    { << GivenRow(SnapshotDate, "US", 1, "t1", <<"a1">>, <<"A">>, 50),
         GivenRow(SnapshotDate, "US", 2, "t2", <<"a1">>, <<"A">>, 49) >>,
      << GivenRow(SnapshotDate, "GB", 3, "t1", <<"a1">>, <<"A">>, 80),
         GivenRow(SnapshotDate, "US", 3, "t3", <<"a2">>, <<"B">>, 60) >>,
      << GivenRow(SnapshotDate, "US", 4, "t5", <<>>, <<>>, 20) >>,
      << GivenRow(SnapshotDate - 1, "US", 1, "t1", <<"a2">>, <<"B">>, 10) >>,
      << GivenRow(SnapshotDate, "US", 1, "t1", <<"a1">>, <<"A">>, 50),
         GivenRow(SnapshotDate, "US", 1, "t4", <<"a1">>, <<"B">>, 30) >>,
      << GivenRow(SnapshotDate, "US", 1, "t1", <<"a1">>, <<"A">>, 50),
         GivenRow(SnapshotDate, "US", 3, "t4", <<"a1">>, <<"B">>, 30) >> }

LoadArgsUniverse ==
    { LoadArgs(bronze, snapshot) :
        <<bronze, snapshot>> \in
            { <<b, d>> \in LoadFrames \X {NoSnapshot, SnapshotDate, SnapshotDate - 1} :
                d \in {NoSnapshot, b[1].snapshot_date} } }

\* one call load_dataframes(bronze_df, silver_df, gold_df, url, snapshot)
load_dataframes ==
    /\ runpc = "loading"
    /\ Len(load_log) < MaxLoads
    /\ \E args \in LoadArgsUniverse :
         LET result == Loaded(db, args)
         IN  /\ db' = result.tables
             /\ load_log' = Append(load_log, [args |-> args, status |-> result.status])
    /\ UNCHANGED <<raw, bronze_fn, bronze_out, aggVars>>
    /\ UNCHANGED <<clientVars, runVars, ghostVars, fetches>>

(***************************************************************************)
(* One fetch_playlist call against a server free to answer 401 for ever    *)
(***************************************************************************)
\* The steps below are those of token_granted, request_send and
\* response_reauth without the bookkeeping that counts them: which token was
\* granted, how many requests went out and how many 401 came back are not
\* recorded, so a loop of the program is a cycle of states.

\* the token endpoint answers 200: a token and its expiry are stored
token_granted_again(c) ==
    /\ call[c].pc = "token_wait"
    /\ \E g \in ExpiresInChoices :
         LET expires_in == IF g = Absent THEN DefaultExpiresIn ELSE g
         IN  /\ token' = 1
             /\ token_expiry' = now + expires_in
             /\ call' = [call EXCEPT ![c].pc = "hdr",
                                     ![c].ens.newTok = 1,
                                     ![c].ens.newExp = now + expires_in]
    /\ UNCHANGED <<now, issued, faults, ticks>>
    /\ UNCHANGED <<runVars, ghostVars, fetches, pureVars>>

\* headers = {"Authorization": Bearer token}; self._session.request(...)
request_send_again(c) ==
    /\ call[c].pc = "hdr"
    /\ call' = [call EXCEPT ![c].pc = "wait", ![c].auth = token, ![c].ens = NoEnsure,
                            ![c].sent = << [url |-> call[c].url,
                                            params |-> call[c].params,
                                            auth |-> token] >>]
    /\ UNCHANGED <<token, token_expiry, now, issued, faults, ticks>>
    /\ UNCHANGED <<runVars, ghostVars, fetches, pureVars>>

\* status 401, as often as the server likes: _invalidate_token, then
\* _ensure_token again and `continue`
response_reauth_again(c) ==
    /\ call[c].pc = "wait"
    /\ \E status \in ServerStatuses :
         /\ Handling(status) = "reauth"
         /\ call' = [call EXCEPT ![c].pc = "ensure", ![c].status = status]
    /\ token' = 0
    /\ token_expiry' = 0
    /\ UNCHANGED <<now, issued, faults, ticks>>
    /\ UNCHANGED <<runVars, ghostVars, fetches, pureVars>>

(***************************************************************************)
(* Specifications                                                          *)
(***************************************************************************)
InitClient ==
    /\ token = 0
    /\ token_expiry = 0
    /\ now = 0
    /\ issued = 0
    /\ faults = 0
    /\ ticks = 0
    /\ call = [c \in Callers |-> IdleCall]
    /\ fetches = [c \in Callers |-> 0]
    /\ served = {}
    /\ rejectedAt = 0

InitRunIdle ==
    /\ ti = 0
    /\ ai = 0
    /\ last_error = NoErr
    /\ bronze_frames = <<>>
    /\ errors = <<>>
    /\ outcome = "running"
    /\ bronze_df = <<>>
    /\ silver_df = <<>>
    /\ gold_df = <<>>
    /\ tried = <<>>
    /\ silver_out = <<>>
    /\ gold_out = <<>>
    /\ db = EmptyTables
    /\ load_log = <<>>

\* one run() over a configuration load_settings accepts
Init ==
    /\ InitClient
    /\ InitRunIdle
    /\ targets \in SeqsUpTo(TargetUniverse, MaxTargets) \ {<<>>}
    /\ runpc = "init"
    /\ raw = <<>> /\ bronze_fn = "off" /\ bronze_out = <<>> /\ agg_pc = "off"

ClientNext ==
    \E c \in Callers :
        \/ ensure_token(c)
        \/ token_granted(c)
        \/ token_rejected(c)
        \/ request_send(c)
        \/ response_reauth(c)
        \/ response_backoff(c)
        \/ response_raise(c)
        \/ response_return(c)

Next == ClientNext \/ Tick \/ run_start \/ run_fetched \/ run_fetch_failed

Spec == Init /\ [][Next]_vars

\* two workers sharing one client
InitConc ==
    /\ InitClient
    /\ InitRunIdle
    /\ targets = <<>>
    /\ runpc = "off"
    /\ raw = <<>> /\ bronze_fn = "off" /\ bronze_out = <<>> /\ agg_pc = "off"

NextConc == ClientNext \/ Tick \/ (\E c \in Callers : worker_fetch(c))

SpecConc == InitConc /\ [][NextConc]_vars

\* the normalisers applied to every short list of raw entries
InitBronze ==
    /\ InitClient
    /\ InitRunIdle
    /\ targets = <<>>
    /\ runpc = "off"
    /\ raw \in SeqsUpTo(ItemUniverse, MaxLen)
    /\ bronze_fn = "ready"
    /\ bronze_out = <<>>
    /\ agg_pc = "bronze"

NextBronze == normalise_playlist \/ normalise_top_tracks \/ to_silver \/ to_gold

SpecBronze == InitBronze /\ [][NextBronze]_vars

\* the aggregators applied to every short Bronze frame
InitAgg ==
    /\ InitClient
    /\ InitRunIdle
    /\ targets = <<>>
    /\ runpc = "off"
    /\ raw = <<>>
    /\ bronze_fn = "given"
    /\ bronze_out \in SeqsUpTo(BronzeRowUniverse, MaxRows)
    /\ agg_pc = "bronze"

NextAgg == to_silver \/ to_gold

SpecAgg == InitAgg /\ [][NextAgg]_vars

\* a database receiving the loads of several runs
InitLoad ==
    /\ InitClient
    /\ InitRunIdle
    /\ targets = <<>>
    /\ runpc = "loading"
    /\ raw = <<>> /\ bronze_fn = "off" /\ bronze_out = <<>> /\ agg_pc = "off"

NextLoad == load_dataframes

SpecLoad == InitLoad /\ [][NextLoad]_vars

\* a fresh client about to be asked for a playlist
InitLive ==
    /\ InitClient
    /\ InitRunIdle
    /\ targets = <<>>
    /\ runpc = "off"
    /\ raw = <<>> /\ bronze_fn = "off" /\ bronze_out = <<>> /\ agg_pc = "off"

\* the steps of the call: the program's own and the answers it waits for
LiveStep(c) ==
    \/ ensure_token(c)
    \/ token_granted_again(c)
    \/ token_rejected(c)
    \/ request_send_again(c)
    \/ response_reauth_again(c)
    \/ response_backoff(c)
    \/ response_raise(c)
    \/ response_return(c)

NextLive == worker_fetch(1) \/ (\E c \in Callers : LiveStep(c))

\* the thread keeps running and every HTTP call it makes returns: a step of
\* the call that can be taken is taken; which answer arrives is the server's
\* choice. Rate-limit and other error answers are limited by MaxFaults, the
\* chain of next pointers by the Catalog.
SpecLive == InitLive /\ [][NextLive]_vars /\ \A c \in Callers : WF_vars(LiveStep(c))


(***************************************************************************)
(* Properties                                                              *)
(***************************************************************************)
\* every entry the server holds for a playlist, page after page
AllEntries(pid) == Concat(Catalog[pid].pages)

\* the positions of the entries of a list that carry a non-empty track id
UsablePositions(entries) ==
    { i \in 1..Len(entries) :
        /\ ~entries[i].null
        /\ entries[i].track.kind = "dict"
        /\ entries[i].track.id \notin {NONE, ""} }

\* C1: within one _request call a second 401 ends the call with an error: the
\* token is invalidated and the request retried at most once.
C1_SingleReauthRetry ==
    \A c \in Callers : call[c].n401 >= 2 => call[c].pc = "raised"

\* C2: every 429 is followed by a sleep of Retry-After seconds (1 when the header
\* is absent) and a re-issue of the same url and params; a call that returns after
\* k rate-limit answers has made exactly k retried requests on their account and
\* returns the payload of its url.
C2_BackoffReissuesSameRequest ==
    \A c \in Callers :
        /\ call[c].slept = call[c].owed
        /\ call[c].pc = "wait" =>
             Len(call[c].sent) = 1 + call[c].n401 + call[c].n429
        /\ \A i \in 1..Len(call[c].sent) :
             /\ call[c].sent[i].url = call[c].url
             /\ call[c].sent[i].params = call[c].params
        /\ call[c].last.valid =>
             /\ Len(call[c].last.sent) = 1 + call[c].last.n401 + call[c].last.n429
             /\ \A i \in 1..Len(call[c].last.sent) :
                  call[c].last.sent[i].url = call[c].last.url
             /\ call[c].last.payload = PagePayload(call[c].last.url)

\* a call returned its last page after two rate-limit answers (waits 1 and 2) and no 401
C2_Witness ==
    \E c \in Callers :
        /\ call[c].pc = "returned"
        /\ call[c].last.valid
        /\ call[c].last.n429 = 2
        /\ call[c].last.n401 = 0
        /\ Len(call[c].last.sent) = 3
        /\ call[c].slept = 3

\* C3: _ensure_token posts nothing to the token endpoint while a token is cached
\* and now < expiry - 30, and posts exactly once otherwise; when it returns after
\* a post, token and expiry are both the newly granted ones, and the resource
\* request that follows carries the cached token.
C3_EnsureTokenRefreshesOnce ==
    \A c \in Callers :
        LET e == call[c].ens
        IN  /\ call[c].pc = "hdr" =>
                 /\ e.posts = (IF e.stale THEN 1 ELSE 0)
                 /\ e.stale => /\ token = e.newTok
                               /\ token_expiry = e.newExp
                               /\ token # e.oldTok
                 /\ ~e.stale => token = e.oldTok /\ token_expiry = e.oldExp
            /\ call[c].pc = "token_wait" =>
                 /\ e.stale
                 /\ e.posts = 1
                 /\ Len(call[c].sent) = call[c].n401 + call[c].n429
            /\ call[c].pc = "wait" /\ call[c].n429 = 0 =>
                 /\ token # 0
                 /\ call[c].sent[Len(call[c].sent)].auth = token

\* a cached token that has come within 30 s of its expiry was replaced by one post
C3_Witness ==
    \E c \in Callers :
        /\ call[c].pc = "hdr"
        /\ call[c].ens.stale
        /\ call[c].ens.oldTok # 0
        /\ now < call[c].ens.oldExp
        /\ call[c].ens.posts = 1
        /\ token = call[c].ens.newTok

\* C4: with several callers on one client at most one token refresh is in flight
\* at any time.
C4_SingleRefreshInFlight ==
    Cardinality({ c \in Callers : call[c].pc = "token_wait" }) <= 1

\* C5: a finished run() has succeeded exactly if some target was fetched and
\* holds an entry with a track id, whatever happened to the other targets, and
\* the combined Bronze set has a row for every such entry of every fetched target.
C5_SuccessIffSomeFrame ==
    runpc = "done" =>
        /\ outcome = "Succeeded" <=>
             \E t \in served : UsablePositions(AllEntries(targets[t].playlist_id)) # {}
        /\ \A t \in served :
             \A pos \in UsablePositions(AllEntries(targets[t].playlist_id)) :
                \E k \in 1..Len(bronze_df) :
                   /\ bronze_df[k].playlist_id = targets[t].playlist_id
                   /\ bronze_df[k].market = Upper(targets[t].market)
                   /\ bronze_df[k].rank = pos
                   /\ bronze_df[k].track_id =
                        AllEntries(targets[t].playlist_id)[pos].track.id

\* a run of two targets succeeded although one of them failed every attempt
C5_Witness ==
    /\ runpc = "done"
    /\ outcome = "Succeeded"
    /\ Len(targets) = 2
    /\ Len(errors) = 1
    /\ Len(bronze_frames) = 1
    /\ bronze_df # <<>>

\* C6: a run() that ends without any Bronze frame raises the run-failure error,
\* and its message holds a reason for every target, also for those that were
\* fetched but normalised to no row.
C6_RunFailedListsAllReasons ==
    (runpc = "done" /\ bronze_frames = <<>>) =>
        /\ outcome = "RuntimeError"
        /\ \A t \in 1..Len(targets) :
             \E i \in 1..Len(errors) :
                /\ errors[i].playlist_id = targets[t].playlist_id
                /\ errors[i].market = targets[t].market

\* C7: once the token endpoint has refused the credentials during a target's
\* fetch the run is over: no later target is attempted, the run does not
\* succeed, and the refusal is not listed among the per-target failures.
C7_TokenRejectionAbortsRun ==
    rejectedAt # 0 =>
        /\ ti = rejectedAt
        /\ outcome # "Succeeded"
        /\ \A i \in 1..Len(errors) : errors[i].response.src # "token"

\* C8: an answer with an error status other than 401 and 429 ends the call at
\* once with an error carrying that status: no request is added and the cached
\* token and expiry stay as they were.
C8_ErrorStatusFailsAtOnce ==
    [][ \A c \in Callers :
          ( /\ call[c].pc = "wait"
            /\ call'[c] # call[c]
            /\ call'[c].status >= 400
            /\ call'[c].status \notin {401, 429} )
          => /\ call'[c].pc = "raised"
             /\ call'[c].err = [status |-> call'[c].status, src |-> "api"]
             /\ call'[c].sent = call[c].sent
             /\ token' = token
             /\ token_expiry' = token_expiry ]_vars

\* a call ended on a 500 answer with the cached token still in place
C8_Witness ==
    \E c \in Callers :
        /\ call[c].pc = "raised"
        /\ call[c].err = [status |-> 500, src |-> "api"]
        /\ Len(call[c].sent) = 1
        /\ token # 0
        /\ call[c].sent[1].auth = token

\* C9: each Bronze record's rank is the 1-based position of its source entry in
\* the input (dropped entries keep their positions), and the records come in
\* input order, so ranks are strictly increasing.
C9_RankIsInputPosition ==
    bronze_fn \in {"playlist", "top"} =>
        /\ \A k \in 1..Len(bronze_out) :
             /\ bronze_out[k].rank \in 1..Len(raw)
             /\ ~raw[bronze_out[k].rank].null
             /\ raw[bronze_out[k].rank].track.kind = "dict"
             /\ raw[bronze_out[k].rank].track.id = bronze_out[k].track_id
             /\ raw[bronze_out[k].rank].track.name = bronze_out[k].track_name
        /\ \A k \in 1..(Len(bronze_out) - 1) :
             bronze_out[k].rank < bronze_out[k + 1].rank

\* a kept entry behind a dropped one keeps its input position as rank
C9_Witness ==
    /\ bronze_fn = "playlist"
    /\ Len(bronze_out) = 2
    /\ bronze_out[1].rank = 2
    /\ bronze_out[2].rank = 3

\* C10: the normaliser emits exactly one record per entry with a non-empty track
\* id and none for the others, whatever else the entries hold.
C10_OneRecordPerTrackId ==
    bronze_fn \in {"playlist", "top"} =>
        /\ Len(bronze_out) = Cardinality(UsablePositions(raw))
        /\ { bronze_out[k].rank : k \in 1..Len(bronze_out) } = UsablePositions(raw)
        /\ \A k \in 1..Len(bronze_out) : bronze_out[k].track_id \notin {NONE, ""}

\* entries with an empty id and with no id were dropped next to a kept one
C10_Witness ==
    /\ bronze_fn = "top"
    /\ Len(raw) = 3
    /\ Len(bronze_out) = 1
    /\ \E i \in 1..Len(raw) : raw[i].track.kind = "dict" /\ raw[i].track.id = ""
    /\ \E i \in 1..Len(raw) : raw[i].track.kind = "dict" /\ raw[i].track.id = NONE

\* C11: in every Bronze record artist_ids and artist_names have one length, and
\* the i-th name comes from the same artist entry of the input as the i-th id,
\* also when some artist entries lack an id or a name.
C11_ArtistListsAligned ==
    bronze_fn \in {"playlist", "top"} =>
        \A k \in 1..Len(bronze_out) :
            LET r == bronze_out[k]
                artists == raw[r.rank].track.artists
            IN  /\ Len(r.artist_ids) = Len(r.artist_names)
                /\ \A i \in 1..Len(r.artist_ids) :
                      \E j \in 1..Len(artists) :
                          /\ artists[j].id = r.artist_ids[i]
                          /\ artists[j].name = r.artist_names[i]

\* a Bronze record that lists some artist id or some artist name
HasArtists(r) == r.artist_ids # <<>> \/ r.artist_names # <<>>

\* C12: an entry with a track id and no artists becomes a Bronze record with
\* empty artist lists; such records add nothing to Silver, which is the Silver
\* of the other records alone and draws every rank from them, and a Bronze set
\* made of such records only gives an empty Silver table.
C12_NoArtistsNoSilver ==
    bronze_fn \in {"playlist", "top"} =>
        /\ \A i \in UsablePositions(raw) :
             raw[i].track.artists = <<>> =>
                 \E k \in 1..Len(bronze_out) :
                     /\ bronze_out[k].rank = i
                     /\ bronze_out[k].artist_ids = <<>>
                     /\ bronze_out[k].artist_names = <<>>
        /\ agg_pc \in {"silver", "gold"} =>
             /\ silver_out = bronze_to_silver(SelectSeq(bronze_out, HasArtists))
             /\ \A n \in 1..Len(silver_out) :
                  /\ silver_out[n].artist_id # NONE
                  /\ \E k \in 1..Len(bronze_out) :
                       /\ HasArtists(bronze_out[k])
                       /\ bronze_out[k].rank = silver_out[n].best_rank
                  /\ silver_out[n].tracks <=
                        Cardinality({ k \in 1..Len(bronze_out) : HasArtists(bronze_out[k]) })
             /\ (\A k \in 1..Len(bronze_out) : ~HasArtists(bronze_out[k])) =>
                  silver_out = <<>>

\* a record without artists stood first, next to one with an artist, and Silver
\* holds the latter's artist only
C12_Witness ==
    /\ bronze_fn = "playlist"
    /\ agg_pc = "silver"
    /\ Len(bronze_out) = 2
    /\ ~HasArtists(bronze_out[1])
    /\ HasArtists(bronze_out[2])
    /\ Len(silver_out) = 1
    /\ silver_out[1].best_rank = bronze_out[2].rank

\* the exploded Bronze rows: record k of bronze_out paired with the i-th of its
\* zipped (artist id, artist name) pairs
ExplodedRows ==
    UNION { { <<k, i>> : i \in { j \in 1..Len(bronze_out[k].artist_ids) :
                                   j <= Len(bronze_out[k].artist_names) } } :
            k \in 1..Len(bronze_out) }

\* the exploded rows of one (snapshot_date, market, artist_id, artist_name)
SilverGroup(s) ==
    { e \in ExplodedRows :
        /\ bronze_out[e[1]].snapshot_date = s.snapshot_date
        /\ bronze_out[e[1]].market = s.market
        /\ bronze_out[e[1]].artist_ids[e[2]] = s.artist_id
        /\ bronze_out[e[1]].artist_names[e[2]] = s.artist_name }

SilverKey(s) == <<s.snapshot_date, s.market, s.artist_id, s.artist_name>>

RECURSIVE ScoreSum(_)
ScoreSum(group) ==
    IF group = {} THEN 0
    ELSE LET e == CHOOSE x \in group : TRUE
             score == bronze_out[e[1]].score
         IN  (IF score = NoPop THEN 0 ELSE score) + ScoreSum(group \ {e})

\* C13: bronze_to_silver returns exactly one record per distinct
\* (snapshot_date, market, artist_id, artist_name) of the exploded Bronze rows;
\* its tracks is the number of distinct track ids of the group, its total_score
\* the sum of the group's scores with an absent score counted as 0, and its
\* best_rank the least rank of the group.
C13_SilverAggregates ==
    agg_pc \in {"silver", "gold"} =>
        /\ { SilverKey(silver_out[n]) : n \in 1..Len(silver_out) } =
           { <<bronze_out[e[1]].snapshot_date, bronze_out[e[1]].market,
               bronze_out[e[1]].artist_ids[e[2]], bronze_out[e[1]].artist_names[e[2]]>> :
             e \in ExplodedRows }
        /\ \A m, n \in 1..Len(silver_out) :
             SilverKey(silver_out[m]) = SilverKey(silver_out[n]) => m = n
        /\ \A n \in 1..Len(silver_out) :
             LET s == silver_out[n]
                 group == SilverGroup(s)
             IN  /\ s.tracks = Cardinality({ bronze_out[e[1]].track_id : e \in group })
                 /\ s.total_score = ScoreSum(group)
                 /\ \E e \in group : bronze_out[e[1]].rank = s.best_rank
                 /\ \A e \in group : bronze_out[e[1]].rank >= s.best_rank

\* one artist listed twice with the same track, once without a score: one
\* track counted, the present score as the total
C13_Witness ==
    /\ agg_pc = "silver"
    /\ \E n \in 1..Len(silver_out) :
         /\ Cardinality(SilverGroup(silver_out[n])) = 2
         /\ silver_out[n].tracks = 1
         /\ silver_out[n].total_score = 50
         /\ \E e \in SilverGroup(silver_out[n]) : bronze_out[e[1]].score = NoPop

\* C14: Silver is ordered by ascending snapshot_date, then ascending market,
\* then ascending best_rank, then descending total_score: no record is greater
\* than its successor under that order, so of two artists of one date and
\* market with equal best_rank the one with the higher total_score comes first.
C14_SilverOrdered ==
    agg_pc \in {"silver", "gold"} =>
        \A n \in 1..(Len(silver_out) - 1) :
            LET a == silver_out[n]
                b == silver_out[n + 1]
            IN  \/ a.snapshot_date < b.snapshot_date
                \/ /\ a.snapshot_date = b.snapshot_date
                   /\ StrLess(a.market, b.market)
                \/ /\ a.snapshot_date = b.snapshot_date
                   /\ a.market = b.market
                   /\ a.best_rank < b.best_rank
                \/ /\ a.snapshot_date = b.snapshot_date
                   /\ a.market = b.market
                   /\ a.best_rank = b.best_rank
                   /\ a.total_score >= b.total_score

\* two artists of one date and market tie on best_rank; the one with the higher
\* total_score stands first although its artist id sorts last
C14_Witness ==
    /\ agg_pc = "silver"
    /\ \E n \in 1..(Len(silver_out) - 1) :
         /\ silver_out[n].snapshot_date = silver_out[n + 1].snapshot_date
         /\ silver_out[n].market = silver_out[n + 1].market
         /\ silver_out[n].best_rank = silver_out[n + 1].best_rank
         /\ silver_out[n].total_score > silver_out[n + 1].total_score
         /\ StrLess(silver_out[n + 1].artist_id, silver_out[n].artist_id)

\* the Silver records of one (snapshot_date, artist_id, artist_name)
GoldGroup(g) ==
    { n \in 1..Len(silver_out) :
        /\ silver_out[n].snapshot_date = g.snapshot_date
        /\ silver_out[n].artist_id = g.artist_id
        /\ silver_out[n].artist_name = g.artist_name }

GoldKey(g) == <<g.snapshot_date, g.artist_id, g.artist_name>>

RECURSIVE TotalSum(_)
TotalSum(group) ==
    IF group = {} THEN 0
    ELSE LET n == CHOOSE x \in group : TRUE
         IN  silver_out[n].total_score + TotalSum(group \ {n})

\* C15: silver_to_gold returns exactly one record per distinct
\* (snapshot_date, artist_id, artist_name) of Silver; its markets is the number
\* of distinct markets of the group, its total_score the sum of the group's
\* Silver total_score values, its best_rank the least best_rank of the group.
C15_GoldAggregates ==
    agg_pc = "gold" =>
        /\ { GoldKey(gold_out[n]) : n \in 1..Len(gold_out) } =
           { GoldKey(silver_out[n]) : n \in 1..Len(silver_out) }
        /\ \A m, n \in 1..Len(gold_out) :
             GoldKey(gold_out[m]) = GoldKey(gold_out[n]) => m = n
        /\ \A n \in 1..Len(gold_out) :
             LET g == gold_out[n]
                 group == GoldGroup(g)
             IN  /\ g.markets = Cardinality({ silver_out[k].market : k \in group })
                 /\ g.total_score = TotalSum(group)
                 /\ \E k \in group : silver_out[k].best_rank = g.best_rank
                 /\ \A k \in group : silver_out[k].best_rank >= g.best_rank

\* an artist with Silver totals 99 in one market and 80 in another: one Gold
\* record of two markets, total 179 and the better of the two ranks
C15_Witness ==
    /\ agg_pc = "gold"
    /\ \E n \in 1..Len(gold_out) :
         /\ gold_out[n].markets = 2
         /\ gold_out[n].total_score = 179
         /\ gold_out[n].best_rank = 1
         /\ \E k \in GoldGroup(gold_out[n]) : silver_out[k].best_rank = 3

\* C17: no two records of a Silver table returned by bronze_to_silver share
\* (snapshot_date, market, artist_id), also when the Bronze input lists one
\* artist id under two different names.
C17_SilverKeyUnique ==
    agg_pc \in {"silver", "gold"} =>
        \A m, n \in 1..Len(silver_out) :
            ( /\ silver_out[m].snapshot_date = silver_out[n].snapshot_date
              /\ silver_out[m].market = silver_out[n].market
              /\ silver_out[m].artist_id = silver_out[n].artist_id ) => m = n

\* C16: in the combined Bronze set run() builds from its targets no two records
\* share (snapshot_date, market, rank), for every accepted list of targets,
\* also one with several targets of the same market label.
C16_BronzeKeyUnique ==
    outcome = "Succeeded" =>
        \A m, n \in 1..Len(bronze_df) :
            ( /\ bronze_df[m].snapshot_date = bronze_df[n].snapshot_date
              /\ bronze_df[m].market = bronze_df[n].market
              /\ bronze_df[m].rank = bronze_df[n].rank ) => m = n

\* the attempts a target is entitled to: two with an api_market, else one
AttemptsAllowed(target) == IF api_market(target) = NONE THEN 1 ELSE 2

\* every attempt the target at k is entitled to was made and raised an HTTP error
AllAttemptsFailed(k) ==
    /\ Len(tried[k]) = AttemptsAllowed(targets[k])
    /\ \A i \in 1..Len(tried[k]) : tried[k][i].result = "HTTPError"

\* C19: for each target run() first fetches with the target's api_market (with
\* no market when it has none), fetches a second time, with no market, only
\* after the first attempt raised an HTTP error, makes at most two attempts (one
\* when there is no api_market), makes none after an attempt that succeeded,
\* and lists the target in errors only after all its attempts failed.
C19_FallbackAttempts ==
    runpc \in {"fetching", "done"} =>
        /\ Len(tried) = ti
        /\ \A k \in 1..Len(tried) :
             LET log == tried[k]
             IN  /\ Len(log) >= 1
                 /\ Len(log) <= AttemptsAllowed(targets[k])
                 /\ log[1].market = api_market(targets[k])
                 /\ Len(log) = 2 =>
                      /\ log[1].result = "HTTPError"
                      /\ log[2].market = NONE
                 /\ \A i \in 1..(Len(log) - 1) : log[i].result # "returned"
                 /\ \A i \in 1..Len(log) :
                      log[i].result = "pending" =>
                          runpc = "fetching" /\ k = ti /\ i = Len(log)
        /\ LET failed == SelectSeq([k \in 1..Len(tried) |-> k], AllAttemptsFailed)
           IN  /\ Len(errors) = Len(failed)
               /\ \A j \in 1..Len(failed) :
                    /\ errors[j].playlist_id = targets[failed[j]].playlist_id
                    /\ errors[j].market = targets[failed[j]].market

\* one target was fetched at the second attempt, without market, after its
\* api_market attempt failed; a target without api_market failed at its only
\* attempt and is the one listed in errors
C19_Witness ==
    /\ runpc = "done"
    /\ Len(tried) = 2
    /\ Len(tried[1]) = 2
    /\ tried[1][1].market = "US"
    /\ tried[1][1].result = "HTTPError"
    /\ tried[1][2].result = "returned"
    /\ Len(tried[2]) = 1
    /\ tried[2][1].market = NONE
    /\ tried[2][1].result = "HTTPError"
    /\ Len(errors) = 1
    /\ errors[1].market = "global"

\* the items of the pages at positions 1..n of a list of page urls
RECURSIVE ItemsOfPages(_, _)
ItemsOfPages(urls, n) ==
    IF n = 0 THEN <<>> ELSE ItemsOfPages(urls, n - 1) \o PagePayload(urls[n]).items

\* C20: fetch_playlist starts at the first page and follows the next pointer
\* until a page has none, asking for each page once and in pointer order; the
\* items it holds are those of the pages received so far, concatenated in that
\* order, and the items it returns are those of all pages, none dropped,
\* repeated or moved; every call starts again from the first page.
C20_FollowsNextPointer ==
    \A c \in Callers :
        call[c].pc # "idle" =>
            LET asked == call[c].asked
                received == IF call[c].pc = "returned" THEN Len(asked) ELSE Len(asked) - 1
            IN  /\ Len(asked) >= 1
                /\ asked[1] = Url(call[c].playlist_id, 1)
                /\ \A i \in 1..(Len(asked) - 1) : asked[i + 1] = PagePayload(asked[i]).next
                /\ \A i, j \in 1..Len(asked) : asked[i] = asked[j] => i = j
                /\ call[c].url = asked[Len(asked)]
                /\ call[c].pc = "returned" => PagePayload(asked[Len(asked)]).next = NoUrl
                /\ received >= 1 => call[c].items = ItemsOfPages(asked, received)
                /\ call[c].pc = "returned" =>
                     call[c].items = AllEntries(call[c].playlist_id)

\* a second call for a playlist of two pages, made after the first one failed,
\* returned the four entries of both pages
C20_Witness ==
    /\ runpc = "fetching"
    /\ call[1].pc = "returned"
    /\ Len(tried[ti]) = 2
    /\ Len(call[1].asked) = 2
    /\ Len(call[1].items) = 4
    /\ call[1].items[4] = PagePayload(Url(call[1].playlist_id, 2)).items[2]

\* the frame a load_dataframes call passes for one table
FrameOf(args, t) ==
    IF t = "bronze" THEN args.bronze_df
    ELSE IF t = "silver" THEN args.silver_df
    ELSE args.gold_df

\* C18: load_dataframes replaces one snapshot date: when a call for date D
\* completes, each table holds for D exactly the rows passed in, the rows of
\* every other date are as before the call, and a call that repeats the
\* arguments of the completed call before it leaves the tables as they were.
C18_IdempotentReplace ==
    [][ ( /\ Len(load_log') = Len(load_log) + 1
          /\ load_log'[Len(load_log')].status = "returned" ) =>
        LET this == load_log'[Len(load_log')]
            D == this.args.bronze_df[1].snapshot_date
        IN  /\ this.args.snapshot \in {NoSnapshot, D}
            /\ \A t \in Tables :
                 /\ { r \in db'[t] : r.snapshot_date = D } =
                    { FrameOf(this.args, t)[i] : i \in 1..Len(FrameOf(this.args, t)) }
                 /\ { r \in db'[t] : r.snapshot_date # D } =
                    { r \in db[t] : r.snapshot_date # D }
            /\ (Len(load_log) >= 1 /\ load_log[Len(load_log)] = this) => db' = db
      ]_vars

\* a load of today's date was replaced by another load of other rows, which was
\* then repeated, next to the rows of the day before
C18_Witness ==
    /\ Len(load_log) = 3
    /\ \A i \in 1..3 : load_log[i].status = "returned"
    /\ load_log[1].args.bronze_df[1].snapshot_date = SnapshotDate
    /\ load_log[2].args.bronze_df[1].snapshot_date = SnapshotDate
    /\ load_log[2].args.bronze_df # load_log[1].args.bronze_df
    /\ load_log[2].args.silver_df # <<>>
    /\ load_log[3] = load_log[2]
    /\ db["bronze"] = { load_log[3].args.bronze_df[i] :
                          i \in 1..Len(load_log[3].args.bronze_df) }

\* C21: no fetch runs for ever: when every HTTP call returns, a request is
\* answered with a rate-limit response only finitely often and the chain of
\* next pointers is finite, the fetch_playlist call in progress, and with it
\* each of its _request calls, eventually returns a payload or raises.
C21_FetchTerminates ==
    (call[1].pc \notin {"idle", "returned", "raised"}) ~>
        (call[1].pc \in {"returned", "raised"})

====
